---- MODULE Spec2Model ----
(***************************************************************************)
(* A model of zfs_exporter (src/main.go): the stat schema tables, the      *)
(* vdev identity resolver (vdevName), the node stat emitter                *)
(* (reportVdevStats, with its positional walk, extended-stat walk and      *)
(* histogram reconstruction), the tree walker (descendVdev) and one        *)
(* collection pass (zfsCollector.Collect).                                 *)
(*                                                                         *)
(* A Go map[string]interface{} is a TLA+ function whose DOMAIN is the set  *)
(* of keys present.  A []uint64 is a sequence (Go index i is TLA+ index    *)
(* i+1).  An interface{} stored in vdev_stats_ex is a record [t, v] with t *)
(* the dynamic type.  A device path is the sequence of its components.     *)
(* Every operator that can end the process returns a record whose field    *)
(* end is "ok", "panic" (a Go run-time panic or panic(err)) or "fatal"     *)
(* (log.Fatalf), with out the observations sent to the channel before it.  *)
(* Counter values in the model stay far below 2^53, where float64(uint64)  *)
(* is exact.                                                               *)
(***************************************************************************)
EXTENDS Integers, Sequences, FiniteSets, TLC

VARIABLES
    vdevDepth,   \* flag -depth
    fullPath,    \* flag -fullpath
    kernel,      \* what ioctl.PoolConfigs / ioctl.PoolStats answer during the pass
    pc,          \* position of Collect: idle, iterating, returned, panic, fatal
    todo,        \* pool names the range loop of Collect has not visited yet
    ch,          \* observations sent on the channel in this pass
    vdev,        \* NodeSpec: the node handed to vdevName / reportVdevStats
    ret          \* NodeSpec: what the call returned

vars == <<vdevDepth, fullPath, kernel, pc, todo, ch, vdev, ret>>

-----------------------------------------------------------------------------
(* Stat Schema Registry                                                    *)

zioNames == <<"null", "read", "write", "free", "claim", "ioctl">>

\* a scalar entry, a placeholder entry and an entry with variants of type stat
Scalar(n) == [n |-> n, dimension |-> "", variants |-> <<>>]
Skip == [n |-> "", dimension |-> "", variants |-> <<>>]
Variant(n, dimension, variants) == [n |-> n, dimension |-> dimension, variants |-> variants]

vdevStats ==
    << Skip,
       Scalar("state"),
       Skip,
       Scalar("space_allocated_bytes"),
       Scalar("space_capacity_bytes"),
       Scalar("space_deflated_capacity_bytes"),
       Scalar("devsize_replaceable"),
       Scalar("devsize_expandable"),
       Variant("ops", "type", zioNames),
       Variant("bytes", "type", zioNames),
       Variant("errors", "type", <<"read", "write", "checksum", "initialize">>),
       Scalar("self_healed_bytes"),
       Skip,
       Scalar("scan_processed_bytes"),
       Scalar("fragmentation"),
       Scalar("initialize_processed_bytes"),
       Scalar("initialize_estimated_bytes"),
       Scalar("initialize_state"),
       Scalar("initialize_action_time"),
       Scalar("checkpoint_space_bytes"),
       Scalar("resilver_deferred"),
       Scalar("slow_ios"),
       Scalar("trim_errors"),
       Scalar("trim_unsupported"),
       Scalar("trim_processed_bytes"),
       Scalar("trim_estimated_bytes"),
       Scalar("trim_state"),
       Scalar("trim_action_time"),
       Scalar("rebuild_processed_bytes"),
       Scalar("ashift_configured"),
       Scalar("ashift_logical"),
       Scalar("ashfit_physical"),
       Scalar("noalloc_status"),
       Scalar("physical_capacity_bytes") >>

scanStats ==
    << "scan_func", "scan_state", "scan_start_time_seconds", "scan_end_time_seconds",
       "scan_to_examine_bytes", "scan_examined_bytes", "scan_to_process_bytes",
       "scan_processed_bytes", "scan_errors", "scan_pass_examined_bytes",
       "scan_pass_start_seconds", "scan_scrub_pause", "scan_scrub_pause_time_spent",
       "scan_pass_issued_bytes", "scan_issued_bytes" >>

\* prometheus.NewDesc(name, help, labels, nil)
NewDesc(name, labels) == [name |-> name, labels |-> labels]

extendedStatsLabels == <<"type", "vdev", "zpool", "path">>

activeQueueLength == NewDesc("zfs_vdev_queue_active_length", extendedStatsLabels)
pendingQueueLength == NewDesc("zfs_vdev_queue_pending_length", extendedStatsLabels)
queueLatency == NewDesc("zfs_vdev_queue_latency", extendedStatsLabels)
zioLatencyTotal == NewDesc("zfs_vdev_zio_latency_total", extendedStatsLabels)
zioLatencyDisk == NewDesc("zfs_vdev_latency_disk", extendedStatsLabels)
individualIOSize == NewDesc("zfs_vdev_io_size_individual", extendedStatsLabels)
aggregatedIOSize == NewDesc("zfs_vdev_io_size_aggregated", extendedStatsLabels)
poolLoadTime == NewDesc("zfs_pool_load_time_seconds", <<"zpool", "guid">>)
poolErrors == NewDesc("zfs_pool_errors", <<"zpool", "guid">>)
poolChildren == NewDesc("zfs_pool_vdevs", <<"zpool", "guid">>)
vdevChildren == NewDesc("zfs_vdev_children", <<"vdev", "zpool">>)
vdevNparity == NewDesc("zfs_vdev_nparity", <<"vdev", "pool">>)
poolConfigTxg == NewDesc("zfs_pool_config_txg", <<"zpool">>)

\* the descriptor init() stores in vdevStats[i].desc for a non-placeholder entry
vdevStatDesc(s) ==
    IF Len(s.variants) = 0
    THEN NewDesc("zfs_vdev_" \o s.n, <<"vdev", "zpool", "path">>)
    ELSE NewDesc("zfs_vdev_" \o s.n, <<"vdev", "zpool", "path", s.dimension>>)

\* the descriptor init() stores in scanStats[i].desc
scanStatDesc(n) == NewDesc("zfs_pool_" \o n, <<"zpool">>)

ExtStat(name, desc, label) == [name |-> name, desc |-> desc, label |-> label]

extStats ==
    << ExtStat("vdev_agg_scrub_histo", aggregatedIOSize, "scrub"),
       ExtStat("vdev_agg_trim_histo", aggregatedIOSize, "trim"),
       ExtStat("vdev_async_agg_r_histo", aggregatedIOSize, "async_read"),
       ExtStat("vdev_async_agg_w_histo", aggregatedIOSize, "async_write"),
       ExtStat("vdev_async_ind_r_histo", individualIOSize, "async_read"),
       ExtStat("vdev_async_ind_w_histo", individualIOSize, "async_write"),
       ExtStat("vdev_async_r_active_queue", activeQueueLength, "async_read"),
       ExtStat("vdev_async_r_lat_histo", queueLatency, "async_read"),
       ExtStat("vdev_async_r_pend_queue", pendingQueueLength, "async_read"),
       ExtStat("vdev_async_scrub_active_queue", activeQueueLength, "scrub"),
       ExtStat("vdev_async_scrub_pend_queue", pendingQueueLength, "scrub"),
       ExtStat("vdev_async_trim_active_queue", activeQueueLength, "trim"),
       ExtStat("vdev_async_trim_pend_queue", pendingQueueLength, "trim"),
       ExtStat("vdev_async_w_active_queue", activeQueueLength, "async_write"),
       ExtStat("vdev_async_w_lat_histo", queueLatency, "async_write"),
       ExtStat("vdev_async_w_pend_queue", pendingQueueLength, "async_write"),
       ExtStat("vdev_disk_r_lat_histo", zioLatencyDisk, "read"),
       ExtStat("vdev_disk_w_lat_histo", zioLatencyDisk, "write"),
       ExtStat("vdev_ind_scrub_histo", individualIOSize, "scrub"),
       ExtStat("vdev_ind_trim_histo", individualIOSize, "trim"),
       ExtStat("vdev_scrub_histo", queueLatency, "scrub"),
       ExtStat("vdev_sync_agg_r_histo", aggregatedIOSize, "sync_read"),
       ExtStat("vdev_sync_agg_w_histo", aggregatedIOSize, "sync_write"),
       ExtStat("vdev_sync_ind_r_histo", individualIOSize, "sync_read"),
       ExtStat("vdev_sync_ind_w_histo", individualIOSize, "sync_write"),
       ExtStat("vdev_sync_r_active_queue", activeQueueLength, "sync_read"),
       ExtStat("vdev_sync_r_lat_histo", queueLatency, "sync_read"),
       ExtStat("vdev_sync_r_pend_queue", pendingQueueLength, "sync_read"),
       ExtStat("vdev_sync_w_active_queue", activeQueueLength, "sync_write"),
       ExtStat("vdev_sync_w_lat_histo", queueLatency, "sync_write"),
       ExtStat("vdev_sync_w_pend_queue", pendingQueueLength, "sync_write"),
       ExtStat("vdev_tot_r_lat_histo", zioLatencyTotal, "read"),
       ExtStat("vdev_tot_w_lat_histo", zioLatencyTotal, "write"),
       ExtStat("vdev_trim_histo", queueLatency, "trim"),
       ExtStat("vdev_rebuild_active_queue", activeQueueLength, "rebuild"),
       ExtStat("vdev_rebuild_pend_queue", pendingQueueLength, "rebuild"),
       ExtStat("vdev_ind_rebuild_histo", individualIOSize, "rebuild"),
       ExtStat("vdev_agg_rebuild_histo", aggregatedIOSize, "rebuild"),
       ExtStat("vdev_rebuild_histo", queueLatency, "rebuild") >>

\* extStatsMap[name]: the entry init() stored under name (a later entry of
\* extStats overwrites an earlier one), or the zero extStat for a missing key
extStatsMap(name) ==
    LET hits == {k \in DOMAIN extStats : extStats[k].name = name}
    IN  IF hits = {}
        THEN [name |-> "", desc |-> NewDesc("", <<>>), label |-> ""]
        ELSE extStats[CHOOSE k \in hits : \A j \in hits : j <= k]

-----------------------------------------------------------------------------
(* Observations                                                            *)

\* prometheus.MustNewConstMetric(desc, valueType, value, labelValues...)
MustNewConstMetric(desc, kind, value, labelValues) ==
    [desc |-> desc, kind |-> kind, value |-> value, labels |-> labelValues]

\* prometheus.MustNewConstHistogram(desc, count, sum, buckets, labelValues...)
MustNewConstHistogram(desc, count, sum, buckets, labelValues) ==
    [desc |-> desc, kind |-> "histogram", count |-> count, sum |-> sum,
     buckets |-> buckets, labels |-> labelValues]

\* the result of a piece of code that ran to its end, and its sequencing with
\* the code after it: what follows a panic or a fatal exit never runs
Ok(out) == [end |-> "ok", out |-> out]
AndThen(r1, r2) ==
    IF r1.end # "ok" THEN r1 ELSE [end |-> r2.end, out |-> r1.out \o r2.out]

-----------------------------------------------------------------------------
(* Identity Resolver                                                       *)

\* fmt's %d verb applied to the map lookup vdev[key]: the decimal digits of
\* the number stored there, or fmt's bad-verb text for the nil interface of
\* a key that is absent
fmtD(v, key) == IF key \in DOMAIN v THEN ToString(v[key]) ELSE "%!d(<nil>)"

\* vdevName as the README describes it: the raidz level left out of the name
vdevNameNoParity(parent, v) ==
    LET prefix == IF parent # "" THEN parent \o "/" ELSE parent
    IN  IF (v.type = "disk" \/ v.type = "file") /\ parent # ""
        THEN [end |-> "ok", name |-> parent]
        ELSE [end |-> "ok", name |-> prefix \o v.type \o "-" \o fmtD(v, "id")]

\* vdevName(parent, vdev): [end, name]; the type assertion on
\* vdev["children"] of a draid node panics when the key is absent
vdevName(parent, v) ==
    LET typ == v.type
        prefix == IF parent # "" THEN parent \o "/" ELSE parent
    IN  IF (typ = "disk" \/ typ = "file") /\ parent # ""
        THEN [end |-> "ok", name |-> parent]
        ELSE CASE typ = "raidz" ->
                    [end |-> "ok",
                     name |-> prefix \o typ \o fmtD(v, "nparity") \o "-" \o fmtD(v, "id")]
               [] typ = "draid" ->
                    IF "children" \notin DOMAIN v
                    THEN [end |-> "panic", name |-> ""]
                    ELSE [end |-> "ok",
                          name |-> prefix \o typ \o fmtD(v, "nparity") \o ":"
                                   \o fmtD(v, "draid_ndata") \o "d:"
                                   \o ToString(Len(v.children)) \o "c:"
                                   \o fmtD(v, "draid_nspares") \o "s-" \o fmtD(v, "id")]
               [] OTHER ->
                    [end |-> "ok", name |-> prefix \o typ \o "-" \o fmtD(v, "id")]

-----------------------------------------------------------------------------
(* Histogram Reconstructor                                                 *)

\* Go's int is 64 bits wide and TLC's integers are 32: an int is kept as
\* hi * Limb + lo with 0 <= lo < Limb
LimbBits == 20
Limb == 2 ^ LimbBits
Int64(hi, lo) == [hi |-> hi + (lo \div Limb), lo |-> lo % Limb]
\* 1 << i
Shl1(i) == IF i < LimbBits THEN Int64(0, 2 ^ i) ELSE Int64(2 ^ (i - LimbBits), 0)
\* x / 2
Half(x) == Int64(x.hi \div 2, (x.lo + (x.hi % 2) * Limb) \div 2)
Plus(x, y) == Int64(x.hi + y.hi, x.lo + y.lo)
Times(n, x) == Int64(n * x.hi, n * x.lo)

\* the histogram length that marks a latency histogram in nanoseconds
LatencyBuckets == 37
NsPerSecond == 1000000000

histoDivisor(histo) == IF Len(histo) = LatencyBuckets THEN NsPerSecond ELSE 1

\* the lower bound of the bucket taken for its midpoint
midpointLowerBound(i) == Shl1(i)

\* midpoint := (1 << i) + ((1 << i) / 2)
midpoint(i) == Plus(Shl1(i), Half(Shl1(i)))

\* the loop over histo, from Go index i on: count and acc after it, and the
\* buckets map as the set of its entries; the key math.Exp2(i)/divisor is
\* kept as the pair [exp2 |-> i, div |-> divisor]
RECURSIVE histoLoop(_, _, _, _, _)
histoLoop(histo, i, count, acc, buckets) ==
    IF i >= Len(histo)
    THEN [count |-> count, acc |-> acc, buckets |-> buckets]
    ELSE LET v == histo[i + 1]
             c == count + v
         IN  histoLoop(histo, i + 1, c,
                       Plus(acc, Times(v, midpoint(i))),
                       buckets \cup {[le |-> [exp2 |-> i, div |-> histoDivisor(histo)],
                                      cum |-> c]})

\* the arguments reportVdevStats hands to MustNewConstHistogram for histo;
\* sum is acc/divisor, kept as the fraction num/den
decodeHisto(histo) ==
    LET r == histoLoop(histo, 0, 0, Int64(0, 0), {})
    IN  [count |-> r.count,
         sum |-> [num |-> r.acc, den |-> histoDivisor(histo)],
         buckets |-> r.buckets]

-----------------------------------------------------------------------------
(* Node Stat Emitter                                                       *)

\* filepath.Base of a path given by its components
Base(path) == IF path = <<>> THEN <<".">> ELSE <<path[Len(path)]>>

\* the path label of a node
pathLabel(v) ==
    IF "path" \notin DOMAIN v THEN <<>>
    ELSE IF ~fullPath /\ v.type # "file" THEN Base(v.path)
    ELSE v.path

\* the inner loop over s.variants from variant k on, reading rawStats[i]
RECURSIVE variantLoop(_, _, _, _, _, _)
variantLoop(s, k, i, rawStats, lv, out) ==
    IF k > Len(s.variants) THEN [end |-> "ok", i |-> i, out |-> out]
    ELSE IF i >= Len(rawStats) THEN [end |-> "panic", i |-> i, out |-> out]
    ELSE variantLoop(s, k + 1, i + 1, rawStats, lv,
                     Append(out, MustNewConstMetric(vdevStatDesc(s), "untyped",
                                                    rawStats[i + 1],
                                                    lv \o <<s.variants[k]>>)))

\* walkEntry with a placeholder that consumes no slot
walkEntryNoSkip(s, i, rawStats, lv) ==
    IF s.n = "" THEN [end |-> "ok", i |-> i, out |-> <<>>]
    ELSE IF Len(s.variants) = 0
    THEN [end |-> "ok", i |-> i + 1,
          out |-> <<MustNewConstMetric(vdevStatDesc(s), "untyped", rawStats[i + 1], lv)>>]
    ELSE variantLoop(s, 1, i, rawStats, lv, <<>>)

\* one iteration of the loop over vdevStats, past its break test: the slot
\* index after it and what it sent
walkEntry(s, i, rawStats, lv) ==
    IF s.n = "" THEN [end |-> "ok", i |-> i + 1, out |-> <<>>]
    ELSE IF Len(s.variants) = 0
    THEN [end |-> "ok", i |-> i + 1,
          out |-> <<MustNewConstMetric(vdevStatDesc(s), "untyped", rawStats[i + 1], lv)>>]
    ELSE variantLoop(s, 1, i, rawStats, lv, <<>>)

\* the loop over vdevStats from entry e on, with slot index i
RECURSIVE walkVdevStats(_, _, _, _)
walkVdevStats(e, i, rawStats, lv) ==
    IF e > Len(vdevStats) \/ i >= Len(rawStats) THEN Ok(<<>>)
    ELSE LET r == walkEntry(vdevStats[e], i, rawStats, lv)
         IN  AndThen([end |-> r.end, out |-> r.out],
                     walkVdevStats(e + 1, r.i, rawStats, lv))

\* extEntry that skips a value of an unexpected type instead of exiting
extEntryTolerant(name, val, vdn, poolName, path) ==
    LET statMeta == extStatsMap(name)
    IN  IF statMeta.name = "" THEN Ok(<<>>)
        ELSE IF val.t = "uint64"
        THEN Ok(<<MustNewConstMetric(statMeta.desc, "gauge", val.v[1],
                                     <<statMeta.label, vdn, poolName, path>>)>>)
        ELSE IF val.t = "[]uint64"
        THEN LET h == decodeHisto(val.v)
             IN  Ok(<<MustNewConstHistogram(statMeta.desc, h.count, h.sum, h.buckets,
                                            <<statMeta.label, vdn, poolName, path>>)>>)
        ELSE Ok(<<>>)

\* extEntry without the test for a key the table does not know
extEntryNoSkip(name, val, vdn, poolName, path) ==
    LET statMeta == extStatsMap(name)
    IN  IF val.t = "uint64"
        THEN Ok(<<MustNewConstMetric(statMeta.desc, "gauge", val.v[1],
                                     <<statMeta.label, vdn, poolName, path>>)>>)
        ELSE IF val.t = "[]uint64"
        THEN LET h == decodeHisto(val.v)
             IN  Ok(<<MustNewConstHistogram(statMeta.desc, h.count, h.sum, h.buckets,
                                            <<statMeta.label, vdn, poolName, path>>)>>)
        ELSE [end |-> "fatal", out |-> <<>>]

\* one iteration of the loop over extended_stats
extEntry(name, val, vdn, poolName, path) ==
    LET statMeta == extStatsMap(name)
    IN  IF statMeta.name = "" THEN Ok(<<>>)
        ELSE IF val.t = "uint64"
        THEN Ok(<<MustNewConstMetric(statMeta.desc, "gauge", val.v[1],
                                     <<statMeta.label, vdn, poolName, path>>)>>)
        ELSE IF val.t = "[]uint64"
        THEN LET h == decodeHisto(val.v)
             IN  Ok(<<MustNewConstHistogram(statMeta.desc, h.count, h.sum, h.buckets,
                                            <<statMeta.label, vdn, poolName, path>>)>>)
        ELSE [end |-> "fatal", out |-> <<>>]

\* the loop over extended_stats; order is the order in which the run-time
\* ranges over map keys, the keys absent from this map left out
RECURSIVE walkExtended(_, _, _, _, _, _)
walkExtended(ext, order, k, vdn, poolName, path) ==
    IF k > Len(order) THEN Ok(<<>>)
    ELSE IF order[k] \notin DOMAIN ext
    THEN walkExtended(ext, order, k + 1, vdn, poolName, path)
    ELSE AndThen(extEntry(order[k], ext[order[k]], vdn, poolName, path),
                 walkExtended(ext, order, k + 1, vdn, poolName, path))

\* reportVdevStats(poolName, vdevName, vdev, ch), with the map iteration order;
\* every node of the model carries type, vdev_stats and vdev_stats_ex, whose
\* type assertions therefore succeed
reportVdevStats(poolName, vdn, v, order) ==
    LET kids == IF "children" \in DOMAIN v
                THEN <<MustNewConstMetric(vdevChildren, "gauge", Len(v.children),
                                          <<vdn, poolName>>)>>
                ELSE <<>>
        parity == IF "nparity" \in DOMAIN v
                  THEN <<MustNewConstMetric(vdevNparity, "gauge", v.nparity,
                                            <<vdn, poolName>>)>>
                  ELSE <<>>
        path == pathLabel(v)
    IN  AndThen(Ok(kids \o parity),
        AndThen(walkVdevStats(1, 0, v.vdev_stats, <<vdn, poolName, path>>),
                walkExtended(v.vdev_stats_ex, order, 1, vdn, poolName, path)))

-----------------------------------------------------------------------------
(* Tree Walker and Pool-Level Reporter                                     *)

RECURSIVE descendVdev(_, _, _, _)

\* the loop of descendVdev over kids, from child k on
RECURSIVE descendKids(_, _, _, _, _)
descendKids(poolName, parent, kids, k, order) ==
    IF k > Len(kids) THEN Ok(<<>>)
    ELSE LET vdn == vdevName(parent, kids[k])
         IN  IF vdn.end # "ok" THEN [end |-> vdn.end, out |-> <<>>]
             ELSE AndThen(reportVdevStats(poolName, vdn.name, kids[k], order),
                  AndThen(descendVdev(poolName, vdn.name, kids[k], order),
                          descendKids(poolName, parent, kids, k + 1, order)))

\* descendVdev that reports the children and goes no deeper
descendVdevOneLevel(poolName, parent, v, order) ==
    IF "children" \notin DOMAIN v THEN Ok(<<>>)
    ELSE LET kid(k) == reportVdevStats(poolName, vdevName(parent, v.children[k]).name,
                                       v.children[k], order).out
             F[k \in 0..Len(v.children)] == IF k = 0 THEN <<>> ELSE F[k - 1] \o kid(k)
         IN  Ok(F[Len(v.children)])

\* descendVdev(poolName, parent, vdev, ch)
descendVdev(poolName, parent, v, order) ==
    IF "children" \notin DOMAIN v THEN Ok(<<>>)
    ELSE descendKids(poolName, parent, v.children, 1, order)

\* the loop of Collect over the top-level vdevs, from vdev k on
RECURSIVE topLevelLoop(_, _, _, _)

\* topLevelLoop that descends whenever the top-level vdevs are reported
topLevelLoopAlwaysDescend(poolName, vdevs, k, order) ==
    IF k > Len(vdevs) THEN Ok(<<>>)
    ELSE LET vdn == vdevName("", vdevs[k])
         IN  IF vdn.end # "ok" THEN [end |-> vdn.end, out |-> <<>>]
             ELSE AndThen(reportVdevStats(poolName, vdn.name, vdevs[k], order),
                  AndThen(descendVdev(poolName, vdn.name, vdevs[k], order),
                          topLevelLoop(poolName, vdevs, k + 1, order)))

topLevelLoop(poolName, vdevs, k, order) ==
    IF k > Len(vdevs) THEN Ok(<<>>)
    ELSE LET vdn == vdevName("", vdevs[k])
         IN  IF vdn.end # "ok" THEN [end |-> vdn.end, out |-> <<>>]
             ELSE AndThen(reportVdevStats(poolName, vdn.name, vdevs[k], order),
                  AndThen(IF vdevDepth > 1
                          THEN descendVdev(poolName, vdn.name, vdevs[k], order)
                          ELSE Ok(<<>>),
                          topLevelLoop(poolName, vdevs, k + 1, order)))

\* the pool scan stats at the end of the loop body of Collect
reportScanStats(poolName, vdevTree) ==
    IF "scan_stats" \notin DOMAIN vdevTree THEN <<>>
    ELSE LET rawStats == vdevTree.scan_stats
             n == IF Len(rawStats) < Len(scanStats) THEN Len(rawStats) ELSE Len(scanStats)
         IN  [i \in 1..n |-> MustNewConstMetric(scanStatDesc(scanStats[i]), "gauge",
                                                rawStats[i], <<poolName>>)]

\* the body of the loop of Collect over pools, after ioctl.PoolStats answered
\* stats; the type assertion on vdevTree["children"] panics when the key is
\* absent
collectPool(poolName, stats, order) ==
    LET guid == ToString(stats.pool_guid)
        vdevTree == stats.vdev_tree
        scalars ==
            << MustNewConstMetric(poolLoadTime, "gauge", stats.initial_load_time[1], <<poolName, guid>>),
               MustNewConstMetric(poolErrors, "gauge", stats.error_count, <<poolName, guid>>),
               MustNewConstMetric(poolChildren, "gauge", stats.vdev_children, <<poolName, guid>>),
               MustNewConstMetric(poolConfigTxg, "gauge", stats.txg, <<poolName>>) >>
    IN  AndThen(Ok(scalars),
            IF "children" \notin DOMAIN vdevTree THEN [end |-> "panic", out |-> <<>>]
            ELSE AndThen(reportVdevStats(poolName, "root", vdevTree, order),
                 AndThen(IF vdevDepth > 0
                         THEN topLevelLoop(poolName, vdevTree.children, 1, order)
                         ELSE Ok(<<>>),
                         Ok(reportScanStats(poolName, vdevTree)))))

\* the loop body that goes on to the next pool when ioctl.PoolStats fails
collectOneSkipFailed(poolName, order) ==
    IF kernel.pools[poolName].err THEN Ok(<<>>)
    ELSE collectPool(poolName, kernel.pools[poolName].stats, order)

\* one iteration of the loop of Collect over pools: ioctl.PoolStats, panic(err)
\* when it fails, the loop body otherwise
collectOne(poolName, order) ==
    IF kernel.pools[poolName].err THEN [end |-> "panic", out |-> <<>>]
    ELSE collectPool(poolName, kernel.pools[poolName].stats, order)

-----------------------------------------------------------------------------
(* Inputs: the nodes the kernel can hand over                              *)

MaxRawLen == 49      \* longest vdev_stats array (the schema consumes 47 slots)
MaxHistoLen == 38    \* longest bucket array
MaxCount == 2        \* largest count in one bucket
MaxId == 1           \* largest id among siblings
MaxParity == 2       \* largest nparity
MaxKids == 2         \* most children of one node

\* interface{} values: a uint64 (v holds the one number), a []uint64 and a
\* value of a type the exporter does not expect
U64(n) == [t |-> "uint64", v |-> <<n>>]
U64s(h) == [t |-> "[]uint64", v |-> h]
Str == [t |-> "string", v |-> <<>>]

\* the extended-stat keys the model's kernel uses: two the table knows and
\* one it does not
ExtKeys == {"vdev_sync_r_active_queue", "vdev_tot_r_lat_histo", "vdev_future_stat"}
\* every order in which the run-time may range over them
Orders == {o \in [1..Cardinality(ExtKeys) -> ExtKeys] : \A i, j \in DOMAIN o : o[i] = o[j] => i = j}

Paths == {<<"dev", "sda">>, <<"dev", "sdb">>, <<"alt", "sda">>}

Node(typ, id, rawStats, ext) ==
    [type |-> typ, id |-> id, vdev_stats |-> rawStats, vdev_stats_ex |-> ext]

\* a four-slot vdev_stats array: timestamp, state, aux state, allocated bytes
Raw4(alloc) == <<0, 7, 0, alloc>>

\* nodes whose vdev_stats array has every length up to MaxRawLen; slot i
\* holds b + i + 1, so that a value tells the slot it came from
PosVdevs ==
    {Node("mirror", 0, [k \in 1..len |-> b + k], <<>>) : len \in 0..MaxRawLen, b \in {0, 100}}

\* a bucket array of length len with count a in bucket p and b more in bucket 0
SparseHisto(len, p, a, b) ==
    [k \in 1..len |-> (IF k = p + 1 THEN a ELSE 0) + (IF k = 1 THEN b ELSE 0)]
Histos ==
    UNION {{SparseHisto(len, p, a, b) : p \in 0..(len - 1), a \in 0..MaxCount, b \in 0..1}
           : len \in 0..MaxHistoLen} \cup {<<>>}

HistoVdevs ==
    {Node("disk", 0, <<>>, [k \in {"vdev_tot_r_lat_histo"} |-> U64s(h)]) @@ [path |-> <<"dev", "sda">>]
     : h \in Histos}

\* every extended-stat map over ExtKeys whose values are a scalar, a bucket
\* array or a string
ExtVals == {U64(7), U64s(<<2, 0, 1>>), Str}
ExtMaps == UNION {[ks -> ExtVals] : ks \in SUBSET ExtKeys}
ExtVdevs ==
    {Node("disk", 1, Raw4(5), m) @@ [path |-> <<"dev", "sdb">>] : m \in ExtMaps}

Leaf(id) == Node("disk", id, Raw4(id), <<>>)
Types == {"disk", "file", "mirror", "raidz", "draid", "root", "replacing", "indirect"}
NameVdevs ==
    {Node(typ, id, Raw4(1), <<>>) @@ np @@ dr @@ kids :
        typ \in Types, id \in 0..MaxId,
        np \in {<<>>} \cup {[nparity |-> n] : n \in 1..MaxParity},
        dr \in {<<>>, [draid_ndata |-> 8, draid_nspares |-> 2],
                      [draid_ndata |-> 4, draid_nspares |-> 0]},
        kids \in {<<>>} \cup {[children |-> [k \in 1..n |-> Leaf(k - 1)]] : n \in 0..MaxKids}}

PathVdevs ==
    {Node(typ, 0, Raw4(1), <<>>) @@ pa :
        typ \in {"disk", "file", "mirror"},
        pa \in {<<>>, [path |-> <<>>]} \cup {[path |-> p] : p \in Paths}}

NoCall == [op |-> "none"]

Vdevs == PosVdevs \cup HistoVdevs \cup ExtVdevs \cup NameVdevs \cup PathVdevs

Parents == {"", "mirror-0", "mirror-0/replacing-1"}

-----------------------------------------------------------------------------
(* NodeSpec: vdevName and reportVdevStats applied to one node              *)

passIdle == /\ vdevDepth = 0 /\ kernel = <<>> /\ pc = "off" /\ todo = {} /\ ch = <<>>

NodeInit ==
    /\ vdev \in Vdevs
    /\ fullPath \in BOOLEAN
    /\ ret = NoCall
    /\ passIdle

CallVdevName ==
    /\ ret = NoCall
    /\ \E parent \in Parents :
          ret' = [op |-> "vdevName", parent |-> parent, r |-> vdevName(parent, vdev)]
    /\ UNCHANGED <<vdevDepth, fullPath, kernel, pc, todo, ch, vdev>>

CallReportVdevStats ==
    /\ ret = NoCall
    /\ \E order \in Orders :
          ret' = [op |-> "reportVdevStats",
                  r |-> reportVdevStats("tank", "mirror-0", vdev, order)]
    /\ UNCHANGED <<vdevDepth, fullPath, kernel, pc, todo, ch, vdev>>

NodeNext == CallVdevName \/ CallReportVdevStats

NodeSpec == NodeInit /\ [][NodeNext]_vars

-----------------------------------------------------------------------------
(* Inputs: the pools the kernel can hand over                              *)

MaxDepth == 3        \* largest -depth

Disk(id, path, ext) == Node("disk", id, Raw4(0), ext) @@ [path |-> path]
DiskNoPath(id) == Node("disk", id, Raw4(0), <<>>)
File(id, path) == Node("file", id, Raw4(0), <<>>) @@ [path |-> path]
Group(typ, id, kids) == Node(typ, id, Raw4(0), <<>>) @@ [children |-> kids]

sda == <<"dev", "sda">>
sdb == <<"dev", "sdb">>
altsda == <<"alt", "sda">>

ExtScalar == [k \in {"vdev_sync_r_active_queue"} |-> U64(3)]
ExtBadKnown == [k \in {"vdev_tot_r_lat_histo"} |-> Str]
ExtBadUnknown == [k \in {"vdev_future_stat"} |-> Str]

\* the children a top-level vdev can have
KidSeqs ==
    { <<Disk(0, sda, <<>>), Disk(1, sdb, <<>>)>>,
      <<Disk(0, sda, <<>>), Disk(1, altsda, <<>>)>>,
      <<Disk(0, sdb, ExtScalar), Disk(1, altsda, ExtBadUnknown)>>,
      <<Disk(0, sda, ExtScalar), Disk(1, sdb, ExtBadKnown)>>,
      <<Disk(0, sda, <<>>), DiskNoPath(1)>>,
      <<File(0, <<"img", "sda">>), Disk(1, sda, <<>>)>>,
      <<Group("replacing", 0, <<Disk(0, sda, <<>>), Disk(1, sdb, <<>>)>>), Disk(1, altsda, <<>>)>>,
      <<Group("spare", 0, <<Disk(0, sda, <<>>), DiskNoPath(1)>>)>> }

twoDisks == <<Disk(0, sda, <<>>), Disk(1, sdb, <<>>)>>

\* the top-level vdevs with a given id
TopVdevs(id) ==
    {Group("mirror", id, kids) : kids \in KidSeqs}
    \cup {Node("mirror", id, Raw4(0), <<>>)}
    \cup {Group("raidz", id, twoDisks) @@ np : np \in {<<>>, [nparity |-> 1], [nparity |-> 2]}}
    \cup {Group("draid", id, twoDisks) @@ [nparity |-> 1, draid_ndata |-> 4, draid_nspares |-> 1],
          Node("draid", id, Raw4(0), <<>>) @@ [nparity |-> 1, draid_ndata |-> 4, draid_nspares |-> 1]}
    \cup {Disk(id, sda, <<>>), File(id, <<"img", "sda">>), Node("indirect", id, Raw4(0), <<>>)}

Root(kids) == Group("root", 0, kids)
Roots ==
    {Node("root", 0, Raw4(0), <<>>)}
    \cup {Root(<<t>>) : t \in TopVdevs(0)}
    \cup {Root(<<t, u>>) : t \in TopVdevs(0),
                           u \in {Group("mirror", 1, twoDisks), Disk(1, sdb, <<>>)}}

\* the node with the allocated-bytes slot of every node of its subtree set to
\* a number that names the node: tag for the node itself, 10 * tag + k for
\* its k-th child
RECURSIVE Tagged(_, _)
Tagged(v, tag) ==
    LET own == [v EXCEPT !.vdev_stats = Raw4(tag)]
    IN  IF "children" \notin DOMAIN v THEN own
        ELSE [own EXCEPT !.children = [k \in DOMAIN v.children |-> Tagged(v.children[k], 10 * tag + k)]]

Trees ==
    {Tagged(r, 1) @@ sc : r \in Roots, sc \in {<<>>, [scan_stats |-> <<1, 2, 1700, 1800>>]}}

PoolStats(guid, tree) ==
    [pool_guid |-> guid, initial_load_time |-> <<1600, 0>>, error_count |-> 0,
     vdev_children |-> IF "children" \in DOMAIN tree THEN Len(tree.children) ELSE 0,
     txg |-> 42, vdev_tree |-> tree]

rpoolTree == Tagged(Root(<<Group("mirror", 0, twoDisks)>>), 1)

\* what ioctl.PoolStats can answer for a pool: an error or a pool record
TankAnswers ==
    {[err |-> TRUE, stats |-> <<>>]}
    \cup {[err |-> FALSE, stats |-> PoolStats(7001, t)] : t \in Trees}
RpoolAnswers ==
    {[err |-> TRUE, stats |-> <<>>], [err |-> FALSE, stats |-> PoolStats(7002, rpoolTree)]}

\* what the kernel can answer during one pass: ioctl.PoolConfigs fails, or it
\* lists no pool, tank alone, or tank and rpool
Kernels ==
    {[listErr |-> TRUE, pools |-> <<>>], [listErr |-> FALSE, pools |-> <<>>]}
    \cup {[listErr |-> FALSE, pools |-> [p \in {"tank"} |-> a]] : a \in TankAnswers}
    \cup {[listErr |-> FALSE, pools |-> [p \in {"tank", "rpool"} |-> IF p = "tank" THEN a ELSE b]]
          : a \in TankAnswers, b \in RpoolAnswers}

-----------------------------------------------------------------------------
(* Spec: one collection pass after another                                 *)

nodeIdle == vdev = <<>> /\ ret = NoCall

Init ==
    /\ vdevDepth \in 0..MaxDepth
    /\ fullPath \in BOOLEAN
    /\ kernel \in Kernels
    /\ pc = "idle"
    /\ todo = {}
    /\ ch = <<>>
    /\ nodeIdle

\* a scrape calls Collect: ioctl.PoolConfigs, panic(err) when it fails
CollectBegin ==
    /\ pc \in {"idle", "returned"}
    /\ ch' = <<>>
    /\ IF kernel.listErr
       THEN pc' = "panic" /\ todo' = {}
       ELSE pc' = "iterating" /\ todo' = DOMAIN kernel.pools
    /\ UNCHANGED <<vdevDepth, fullPath, kernel, vdev, ret>>

\* one iteration of the loop over pools; the run-time picks the next pool and
\* the order in which it ranges over every vdev_stats_ex map
CollectPool ==
    /\ pc = "iterating"
    /\ \E poolName \in todo, order \in Orders :
          LET r == collectOne(poolName, order)
          IN  /\ ch' = ch \o r.out
              /\ pc' = IF r.end = "ok" THEN "iterating" ELSE r.end
              /\ todo' = todo \ {poolName}
    /\ UNCHANGED <<vdevDepth, fullPath, kernel, vdev, ret>>

\* the loop over pools is over and Collect returns
CollectReturn ==
    /\ pc = "iterating"
    /\ todo = {}
    /\ pc' = "returned"
    /\ UNCHANGED <<vdevDepth, fullPath, kernel, todo, ch, vdev, ret>>

Next == CollectBegin \/ CollectPool \/ CollectReturn

Spec == Init /\ [][Next]_vars

-----------------------------------------------------------------------------
(* The schema as a table of slots, for stating the positional claims: slot *)
(* j of vdev_stats belongs to the entry and variant SlotTable[j] names     *)

RECURSIVE schemaSlots(_)
schemaSlots(e) ==
    IF e > Len(vdevStats) THEN <<>>
    ELSE LET s == vdevStats[e]
         IN  (IF Len(s.variants) = 0
              THEN <<[name |-> s.n, dimension |-> <<>>, variant |-> <<>>]>>
              ELSE [k \in 1..Len(s.variants) |->
                       [name |-> s.n, dimension |-> <<s.dimension>>,
                        variant |-> <<s.variants[k]>>]])
             \o schemaSlots(e + 1)
SlotTable == schemaSlots(1)
TotalSlots == Len(SlotTable)

Min(a, b) == IF a <= b THEN a ELSE b
IsEmitting(slot) == slot.name # ""

\* what a positional observation says: descriptor, value, variant label
Positional(o) == [desc |-> o.desc, value |-> o.value, variant |-> SubSeq(o.labels, 4, Len(o.labels))]
IsUntyped(o) == o.kind = "untyped"
PositionalOut(out) ==
    LET sel == SelectSeq(out, IsUntyped) IN [k \in DOMAIN sel |-> Positional(sel[k])]

\* one observation per emitting slot below n, in slot order, slot j carrying
\* rawStats[j] and its variant label
SlotObs(rawStats, j) ==
    [slot |-> SlotTable[j],
     obs |-> [desc |-> NewDesc("zfs_vdev_" \o SlotTable[j].name,
                              <<"vdev", "zpool", "path">> \o SlotTable[j].dimension),
              value |-> rawStats[j],
              variant |-> SlotTable[j].variant]]
EmitsSlot(x) == IsEmitting(x.slot)
ExpectedPositional(rawStats, n) ==
    LET sel == SelectSeq([j \in 1..n |-> SlotObs(rawStats, j)], EmitsSlot)
    IN  [k \in DOMAIN sel |-> sel[k].obs]

Reported == ret.op = "reportVdevStats"

\* C1: for every vdev_stats array no longer than the schema's slot count,
\* reportVdevStats raises no error (no read past the end of the array) and
\* emits exactly the schema slots whose index is below the array's length,
\* also when the array ends inside ops, bytes or errors.
C1_ShortArrayTruncates ==
    (Reported /\ Len(vdev.vdev_stats) <= TotalSlots) =>
        /\ ret.r.end = "ok"
        /\ PositionalOut(ret.r.out) = ExpectedPositional(vdev.vdev_stats, Len(vdev.vdev_stats))

\* C10: for a vdev_stats array at least as long as the schema's slot count,
\* a placeholder consumes one slot and emits nothing, a scalar entry consumes
\* one slot and emits one metric, an entry with N variants consumes N slots
\* and emits N metrics on one descriptor, the k-th with the k-th variant
\* label and the value at slot base + k.
C10_LockstepWalk ==
    (Reported /\ Len(vdev.vdev_stats) >= TotalSlots) =>
        /\ ret.r.end = "ok"
        /\ PositionalOut(ret.r.out) = ExpectedPositional(vdev.vdev_stats, TotalSlots)

C10_Witness ==
    /\ Reported
    /\ Len(vdev.vdev_stats) > TotalSlots
    /\ TotalSlots = 47
    /\ Len(PositionalOut(ret.r.out)) = 44
    /\ \E k \in DOMAIN ret.r.out :
          /\ ret.r.out[k].desc.name = "zfs_vdev_errors"
          /\ ret.r.out[k].labels[4] = "checksum"
          /\ ret.r.out[k].value = vdev.vdev_stats[23]

-----------------------------------------------------------------------------
(* Histogram claims                                                        *)

KnownKeys == {extStats[j].name : j \in DOMAIN extStats}
TableEntry(k) == extStats[CHOOSE j \in DOMAIN extStats : extStats[j].name = k]
IsBuckets(val) == val.t = "[]uint64"
IsScalar(val) == val.t = "uint64"
BadShape(val) == ~IsBuckets(val) /\ ~IsScalar(val)
KnownBad(ext) == \E k \in DOMAIN ext : k \in KnownKeys /\ BadShape(ext[k])

\* twice the sum over buckets i >= from of histo[i] * 1.5 * 2^i
RECURSIVE TwiceMidSum(_, _)
TwiceMidSum(histo, from) ==
    IF from >= Len(histo) THEN Int64(0, 0)
    ELSE Plus(Times(3 * histo[from + 1], Shl1(from)), TwiceMidSum(histo, from + 1))

RECURSIVE SumSeq(_)
SumSeq(q) == IF q = <<>> THEN 0 ELSE Head(q) + SumSeq(Tail(q))

RefDivisor(histo) == IF Len(histo) = 37 THEN 10 ^ 9 ELSE 1

\* the histogram observations reportVdevStats sent for the bucket array
\* stored under the known key k
HistoObs(k) ==
    {j \in DOMAIN ret.r.out :
        ret.r.out[j].kind = "histogram" /\ ret.r.out[j].desc = TableEntry(k).desc}

BucketKeys == {k \in DOMAIN vdev.vdev_stats_ex : k \in KnownKeys /\ IsBuckets(vdev.vdev_stats_ex[k])}

\* C3 as stated: the approximate sum is (sum over all i of
\* rawCount[i] * 1.5 * 2^i) / divisor, bucket 0 included.
C3_MidpointEveryBucket ==
    Reported =>
        \A k \in BucketKeys : \A j \in HistoObs(k) :
            LET histo == vdev.vdev_stats_ex[k].v
                o == ret.r.out[j]
            IN  /\ Times(2, o.sum.num) = TwiceMidSum(histo, 0)
                /\ o.sum.den = RefDivisor(histo)

\* C3 amended: the midpoint of bucket i is 1.5 * 2^i for i >= 1 and 1 for
\* bucket 0 (the half of 1 is taken in integers), so the approximate sum is
\* (rawCount[0] + sum over i >= 1 of rawCount[i] * 1.5 * 2^i) / divisor; the
\* total count is the sum of the counts; [1, 0, 0, ...] decodes to count 1
\* and sum 1/divisor, an all-zero array to sum 0.
C3_MidpointBucketZeroIsOne ==
    Reported =>
        \A k \in BucketKeys : \A j \in HistoObs(k) :
            LET histo == vdev.vdev_stats_ex[k].v
                o == ret.r.out[j]
                first == IF Len(histo) = 0 THEN 0 ELSE histo[1]
            IN  /\ Times(2, o.sum.num) = Plus(Int64(0, 2 * first), TwiceMidSum(histo, 1))
                /\ o.sum.den = RefDivisor(histo)
                /\ o.count = SumSeq(histo)

C3_Witness ==
    /\ Reported
    /\ \E k \in BucketKeys : \E j \in HistoObs(k) :
          LET histo == vdev.vdev_stats_ex[k].v
          IN  /\ Len(histo) = 37
              /\ histo[1] = 1
              /\ histo[37] = 2
              /\ ret.r.out[j].count = 3
              /\ ret.r.out[j].sum.den = 10 ^ 9

-----------------------------------------------------------------------------
(* Extended-stat claims                                                    *)

ExtOut(out) ==
    {j \in DOMAIN out :
        out[j].kind # "untyped" /\ out[j].desc # vdevChildren /\ out[j].desc # vdevNparity}

\* the path label the emitter is to give a node
RefPathLabel(v) ==
    IF "path" \notin DOMAIN v THEN <<>>
    ELSE IF fullPath \/ v.type = "file" THEN v.path
    ELSE <<v.path[Len(v.path)]>>

\* C8 as stated: a value that is neither a uint64 nor a []uint64 is fatal
\* whatever key it is stored under.
C8_BadShapeFatalAnyKey ==
    (Reported /\ ret.r.end # "panic"
        /\ \E k \in DOMAIN vdev.vdev_stats_ex : BadShape(vdev.vdev_stats_ex[k]))
    => ret.r.end = "fatal"

\* C8 amended: while the extended-statistics map is walked, a value that is
\* neither a uint64 nor a []uint64 is fatal exactly when the key it is stored
\* under is in the Extended-Stat Descriptor table; under an unknown key it is
\* ignored.
C8_BadShapeFatalKnownKey ==
    (Reported /\ ret.r.end # "panic") =>
        (ret.r.end = "fatal" <=> KnownBad(vdev.vdev_stats_ex))

C8_Witness ==
    /\ Reported
    /\ ret.r.end = "fatal"
    /\ DOMAIN vdev.vdev_stats_ex = ExtKeys
    /\ BadShape(vdev.vdev_stats_ex["vdev_tot_r_lat_histo"])
    /\ IsScalar(vdev.vdev_stats_ex["vdev_future_stat"])

\* C9: a key that is not in the Extended-Stat Descriptor table produces no
\* observation and no error and leaves the other keys' observations as they
\* are: each known key with a scalar emits exactly one gauge, each known key
\* with a bucket sequence exactly one histogram, labelled with the key's
\* sub-label and the node's vdev, zpool and path.
C9_UnknownKeyIgnored ==
    (Reported /\ ret.r.end # "panic" /\ ~KnownBad(vdev.vdev_stats_ex)) =>
        LET ext == vdev.vdev_stats_ex
            out == ret.r.out
            known == DOMAIN ext \cap KnownKeys
        IN  /\ ret.r.end = "ok"
            /\ Cardinality(ExtOut(out)) = Cardinality(known)
            /\ \A k \in known :
                  \E j \in ExtOut(out) :
                     /\ out[j].desc = TableEntry(k).desc
                     /\ out[j].labels = <<TableEntry(k).label, "mirror-0", "tank", RefPathLabel(vdev)>>
                     /\ IF IsScalar(ext[k])
                        THEN out[j].kind = "gauge" /\ out[j].value = ext[k].v[1]
                        ELSE out[j].kind = "histogram" /\ out[j].count = SumSeq(ext[k].v)

C9_Witness ==
    /\ Reported
    /\ ret.r.end = "ok"
    /\ DOMAIN vdev.vdev_stats_ex = ExtKeys
    /\ BadShape(vdev.vdev_stats_ex["vdev_future_stat"])
    /\ IsScalar(vdev.vdev_stats_ex["vdev_sync_r_active_queue"])
    /\ IsBuckets(vdev.vdev_stats_ex["vdev_tot_r_lat_histo"])
    /\ Cardinality(ExtOut(ret.r.out)) = 2

-----------------------------------------------------------------------------
(* Identity claims                                                         *)

Named == ret.op = "vdevName"

\* the attributes the reference resolver reads are there
Nameable(v) ==
    /\ v.type = "raidz" => "nparity" \in DOMAIN v
    /\ v.type = "draid" => {"nparity", "draid_ndata", "draid_nspares", "children"} \subseteq DOMAIN v

RefName(parent, v) ==
    LET prefix == IF parent = "" THEN "" ELSE parent \o "/"
        id == ToString(v.id)
    IN  IF v.type \in {"disk", "file"} /\ parent # "" THEN parent
        ELSE IF v.type = "raidz"
        THEN prefix \o "raidz" \o ToString(v.nparity) \o "-" \o id
        ELSE IF v.type = "draid"
        THEN prefix \o "draid" \o ToString(v.nparity) \o ":" \o ToString(v.draid_ndata)
             \o "d:" \o ToString(Len(v.children)) \o "c:" \o ToString(v.draid_nspares)
             \o "s-" \o id
        ELSE prefix \o v.type \o "-" \o id

-----------------------------------------------------------------------------
(* Collection-pass claims                                                  *)

\* the number that names a node (see Tagged) and the node's level below the
\* root, which is the number of digits after the first
Tag(v) == v.vdev_stats[4]
RECURSIVE Level(_)
Level(tag) == IF tag < 10 THEN 0 ELSE 1 + Level(tag \div 10)

RECURSIVE NodesOf(_)
NodesOf(v) ==
    {v} \cup (IF "children" \notin DOMAIN v THEN {}
              ELSE UNION {NodesOf(v.children[k]) : k \in DOMAIN v.children})

Listed == DOMAIN kernel.pools
TreeOf(p) == kernel.pools[p].stats.vdev_tree

\* the observations that tell a node of pool p was handed to reportVdevStats
IsNodeObs(o, p) == o.desc.name = "zfs_vdev_space_allocated_bytes" /\ o.labels[2] = p
NodeObs(p) == {j \in DOMAIN ch : IsNodeObs(ch[j], p)}

\* C2 as stated: a pass never emits stats for a node that lies deeper than
\* the configured depth below the root.
C2_NothingBelowDepth ==
    \A j \in DOMAIN ch :
        ch[j].desc.name = "zfs_vdev_space_allocated_bytes" => Level(ch[j].value) <= vdevDepth

\* C2 amended: descendVdev recurses into every child without a depth test and
\* Collect calls it when the depth is above 1: with depth 0 or 1 a pass never
\* emits a node deeper than the depth, and with depth 2 or more a pass that
\* returns has emitted every node of the tree, whatever its level.
C2_DepthTwoIsFullDescent ==
    /\ vdevDepth <= 1 =>
          \A j \in DOMAIN ch :
              ch[j].desc.name = "zfs_vdev_space_allocated_bytes"
                  => Level(ch[j].value) <= vdevDepth
    /\ (pc = "returned" /\ vdevDepth >= 2) =>
          \A p \in Listed : \A n \in NodesOf(TreeOf(p)) :
              \E j \in NodeObs(p) : ch[j].value = Tag(n)

C2_Witness ==
    /\ pc = "returned"
    /\ vdevDepth = 2
    /\ \E j \in NodeObs("tank") : Level(ch[j].value) = 3

\* C4: the absence of nparity, children, scan_stats or path on a node a pass
\* visits never aborts the pass: a pass panics only when a kernel call failed.
C4_MissingOptionalNeverAborts ==
    pc = "panic" => (kernel.listErr \/ \E p \in Listed : kernel.pools[p].err)

\* the hierarchies C5 speaks of: every disk or file has a path, and no two
\* nodes have the same path (sibling ids are distinct in every tree of the
\* model)
HasPath(v) == "path" \in DOMAIN v
DistinctPaths(tree) ==
    /\ \A n \in NodesOf(tree) : n.type \in {"disk", "file"} => HasPath(n)
    /\ \A n, m \in NodesOf(tree) : (HasPath(n) /\ HasPath(m) /\ n.path = m.path) => n = m

\* C5: within one pool and one pass, no two emitted nodes have the same
\* (vdev label, path label), in both path modes.
C5_IdentityPathUnique ==
    \A p \in Listed :
        (~kernel.pools[p].err /\ DistinctPaths(TreeOf(p))) =>
            \A j, k \in NodeObs(p) :
                (ch[j].labels[1] = ch[k].labels[1] /\ ch[j].labels[3] = ch[k].labels[3]) => j = k

\* the nodes a pass over tree is to hand to reportVdevStats
Visited(tree) ==
    {n \in NodesOf(tree) : vdevDepth >= 2 \/ Level(Tag(n)) <= vdevDepth}

CountObs(P(_)) == Cardinality({j \in DOMAIN ch : P(ch[j])})

\* the full set of observations of pool p is on the channel
Complete(p) ==
    LET stats == kernel.pools[p].stats
        tree == stats.vdev_tree
        scanDescs == {scanStatDesc(scanStats[i]) : i \in DOMAIN scanStats}
    IN  /\ \A d \in {poolLoadTime, poolErrors, poolChildren, poolConfigTxg} :
              CountObs(LAMBDA o : o.desc = d /\ o.labels[1] = p) = 1
        /\ Cardinality(NodeObs(p)) = Cardinality(Visited(tree))
        /\ \A n \in Visited(tree) :
              /\ CountObs(LAMBDA o : IsNodeObs(o, p) /\ o.value = Tag(n)) = 1
              /\ "children" \in DOMAIN n =>
                    \E j \in DOMAIN ch : /\ ch[j].desc = vdevChildren
                                         /\ ch[j].value = Len(n.children)
                                         /\ ch[j].labels[2] = p
              /\ \A k \in DOMAIN n.vdev_stats_ex \cap KnownKeys :
                    \E j \in DOMAIN ch : /\ ch[j].desc = TableEntry(k).desc
                                         /\ ch[j].labels[1] = TableEntry(k).label
                                         /\ ch[j].labels[3] = p
        /\ CountObs(LAMBDA o : o.desc \in scanDescs /\ o.labels = <<p>>)
              = (IF "scan_stats" \in DOMAIN tree
                 THEN Min(Len(tree.scan_stats), Len(scanStats)) ELSE 0)

\* C7: a pass that returns has emitted the full set of observations of every
\* listed pool, and no kernel call failed and no visited node held an
\* extended stat of an unexpected shape under a known key; every other pass
\* ended the process.
C7_CompleteOrFatal ==
    /\ pc \in {"idle", "iterating", "returned", "panic", "fatal"}
    /\ pc = "returned" =>
          /\ ~kernel.listErr
          /\ \A p \in Listed :
                /\ ~kernel.pools[p].err
                /\ \A n \in Visited(TreeOf(p)) : ~KnownBad(n.vdev_stats_ex)
                /\ Complete(p)

C7_Witness ==
    /\ pc = "returned"
    /\ Listed = {"tank", "rpool"}
    /\ vdevDepth = 2
    /\ "scan_stats" \in DOMAIN TreeOf("tank")
    /\ Cardinality(NodeObs("tank")) = 6

-----------------------------------------------------------------------------
(* Descriptor claims                                                       *)

LabelNames == {"vdev", "zpool", "path", "guid", "type"}
NamesOf(desc) == {desc.labels[i] : i \in DOMAIN desc.labels}

\* C11: every descriptor of an emitted observation declares only label names
\* among vdev, zpool, path, guid and the dimension label type; the label that
\* carries the pool name is declared as zpool; and the observation supplies
\* as many label values as the descriptor declares names.
C11_LabelNamesFromSet ==
    \A j \in DOMAIN ch :
        LET o == ch[j]
        IN  /\ NamesOf(o.desc) \subseteq LabelNames
            /\ Len(o.labels) = Len(o.desc.labels)
            /\ \A i \in DOMAIN o.desc.labels :
                  o.desc.labels[i] \in {"zpool", "pool"} =>
                      o.desc.labels[i] = "zpool" /\ o.labels[i] \in Listed

-----------------------------------------------------------------------------
(* Traversal claims                                                        *)

\* the vdev label of the observation that tells node tag of pool p was emitted
LabelsOf(p, tag) == {ch[j].labels[1] : j \in {i \in NodeObs(p) : ch[i].value = tag}}

\* C12: the nodes handed to reportVdevStats for one pool are set by the depth:
\* depth 0 the root only, named "root"; depth 1 the root and its direct
\* children; depth 2 or more every node; each at most once during the pass
\* and exactly once when it returns; a top-level child is named with an empty
\* parent identity and a deeper node from the identity its parent was given.
C12_DepthSelectsNodes ==
    \A p \in Listed :
        ~kernel.pools[p].err =>
            LET tree == TreeOf(p)
                tags == {Tag(n) : n \in Visited(tree)}
            IN  /\ \A j \in NodeObs(p) : ch[j].value \in tags
                /\ \A j, k \in NodeObs(p) : ch[j].value = ch[k].value => j = k
                /\ pc = "returned" => {ch[j].value : j \in NodeObs(p)} = tags
                /\ vdevDepth = 0 => \A j \in NodeObs(p) : ch[j].value = 1
                /\ vdevDepth = 1 => \A j \in NodeObs(p) : Level(ch[j].value) <= 1
                /\ \A n \in NodesOf(tree) : \A name \in LabelsOf(p, Tag(n)) :
                      CASE Level(Tag(n)) = 0 -> name = "root"
                        [] Level(Tag(n)) = 1 -> Nameable(n) => name = RefName("", n)
                        [] OTHER ->
                             \A parent \in LabelsOf(p, Tag(n) \div 10) :
                                 Nameable(n) => name = RefName(parent, n)

C12_Witness ==
    /\ pc = "returned"
    /\ vdevDepth = 1
    /\ Listed = {"tank"}
    /\ Cardinality(NodesOf(TreeOf("tank"))) = 6
    /\ Cardinality(NodeObs("tank")) = 3
    /\ LabelsOf("tank", 11) = {"mirror-0"}

====
